---------------------------- MODULE Spec2Model ----------------------------
(***************************************************************************)
(* Luxury Catering API (src/main.py): a FastAPI endpoint layer over a      *)
(* document store.  The model keeps the four collections, the module-level *)
(* handle `db`, the process environment, and, per request worker, the      *)
(* position of the handler it is running and the response it produced.     *)
(*                                                                         *)
(* Every storage call (count_documents, create_document, get_documents,    *)
(* list_collection_names) is one atomic step; seed_content, which makes up *)
(* to 15 of them, is therefore a multi-step handler, the others are one    *)
(* step each.  Non-ASCII characters of the source's literals are written   *)
(* in ASCII (Canapes, creme), emoji prefixes of /test are left out.        *)
(***************************************************************************)
EXTENDS Integers, Sequences, FiniteSets, TLC

VARIABLES
    db,          \* "none" | "handle": the module global imported at line 6
    environ,     \* [DATABASE_URL, DATABASE_NAME -> BOOLEAN]: os.getenv is truthy
    up,          \* the store answers (TRUE) or every call on it raises (FALSE)
    store,       \* collection name -> sequence of stored documents
    pc,          \* worker -> "idle" | "seed_count" | "seed_insert" | "done"
    req,         \* worker -> the body of the request it is serving
    coll,        \* worker -> collection seed_content is working on
    idx,         \* worker -> index into that collection's defaults
    resp,        \* worker -> the response of the request it has just served
    seeded,      \* history: some POST /seed has returned {"status": "ok"}
    manual,      \* history: documents written to the store by hand so far
    failed       \* history: the store has been unavailable at some time

vars == <<db, environ, up, store, pc, req, coll, idx, resp, seeded, manual, failed>>

----------------------------------------------------------------------------
(* Bounds of the model. *)

\* POST /contact requests that are stored.
MaxContacts == 1

\* Documents an operator writes to the store by hand.
MaxManual == 1

\* Collections of the database that are not this program's.
OtherCollections == 8

\* Request workers.  Worker 2 serves requests under Spec and RaceSpec only.
AllProcs == {1, 2}

----------------------------------------------------------------------------
(* Collections and schemas. *)

SeedCollections == <<"menuitem", "testimonial", "galleryimage">>

Collections == {"menuitem", "testimonial", "galleryimage", "contactinquiry"}

MenuItem_fields == {"title", "description", "category", "tags", "image_url"}

Testimonial_fields == {"name", "title", "quote"}

GalleryImage_fields == {"url", "alt"}

ContactInquiry_fields == {"name", "email", "message"}

model_fields(c) ==
    CASE c = "menuitem" -> MenuItem_fields
      [] c = "testimonial" -> Testimonial_fields
      [] c = "galleryimage" -> GalleryImage_fields
      [] c = "contactinquiry" -> ContactInquiry_fields

\* Fields a record of the schema cannot be built without.
required_fields(c) == model_fields(c)

\* The hardcoded default records of seed_content.
menu_defaults ==
    << [title |-> "Black Truffle Arancini",
        description |-> "Crisp risotto pearls with aged Parmesan and shaved truffle.",
        category |-> "Canapes",
        tags |-> <<"vegetarian", "signature">>,
        image_url |-> "https://images.unsplash.com/photo-1544025162-d76694265947"],
       [title |-> "Butter-Poached Lobster",
        description |-> "Champagne veloute, fennel pollen, and gold leaf.",
        category |-> "Mains",
        tags |-> <<"seafood">>,
        image_url |-> "https://images.unsplash.com/photo-1546069901-ba9599a7e63c"],
       [title |-> "Valrhona Chocolate Tart",
        description |-> "Sea salt ganache, vanilla creme, cacao nib praline.",
        category |-> "Desserts",
        tags |-> <<"dessert">>,
        image_url |-> "https://images.unsplash.com/photo-1551024709-8f23befc6cf7"] >>

testimonial_defaults ==
    << [name |-> "Amelia R.", title |-> "Luxury Wedding, Lake Como",
        quote |-> "Impeccable from first tasting to the final toast. A flawless experience."],
       [name |-> "Marcus L.", title |-> "Global Summit Gala",
        quote |-> "World-class service that impressed every executive in the room."],
       [name |-> "Sofia N.", title |-> "Private Chef's Table",
        quote |-> "Each course arrived like art. Understated, elegant, unforgettable."] >>

gallery_defaults ==
    << [url |-> "https://images.unsplash.com/photo-1504754524776-8f4f37790ca0", alt |-> "Caviar canapes"],
       [url |-> "https://images.unsplash.com/photo-1517248135467-4c7edcad34c4", alt |-> "Fine dining table"],
       [url |-> "https://images.unsplash.com/photo-1542826438-5ec323d1cb97", alt |-> "Elegant dessert"],
       [url |-> "https://images.unsplash.com/photo-1529042410759-befb1204b468", alt |-> "Champagne service"],
       [url |-> "https://images.unsplash.com/photo-1541870730196-cd1efcbf5646", alt |-> "Gourmet plating"],
       [url |-> "https://images.unsplash.com/photo-1516683037151-9d56a6a58c89", alt |-> "Chef in action"] >>

defaults(c) ==
    CASE c = "menuitem" -> menu_defaults
      [] c = "testimonial" -> testimonial_defaults
      [] c = "galleryimage" -> gallery_defaults

----------------------------------------------------------------------------
(* The store adapter (database.py) and the store client. *)

\* The store is reachable through the handle.
StorageWorks == db = "handle" /\ up

\* Message of the exception a storage call raises in the current state.
StorageErrorMsg ==
    IF db = "none" THEN "Database not available" ELSE "connection failure"

\* The document as stored: the data plus the store-assigned id and timestamps.
stored_document(c, data) ==
    [k \in DOMAIN data \cup {"_id", "created_at", "updated_at"} |->
        IF k \in DOMAIN data THEN data[k] ELSE Len(store[c]) + 1]

\* create_document(collection, data): the store after the insert.
create_document(c, data) ==
    [store EXCEPT ![c] = Append(@, stored_document(c, data))]

\* get_documents(collection): every document, in the store's order.
get_documents(c) == store[c]

\* db[collection].count_documents({}).
count_documents(c) == Len(store[c])

----------------------------------------------------------------------------
(* Requests and responses. *)

NoBody == [none |-> TRUE]

NoDiag == [none |-> TRUE]

NoResp == [route |-> "none", code |-> 0, status |-> "", body |-> <<>>,
           detail |-> <<>>, diag |-> NoDiag]

\* A handler returns normally: HTTP 200 with its value.
Ok(route, status) == [NoResp EXCEPT !.route = route, !.code = 200, !.status = status]

\* str(e) of a plain exception is its message.
StrException(msg) == <<msg>>

\* str(e) of an HTTPException is "<status_code>: <detail>".
StrHTTPException(code, msg) == <<code, ": ", msg>>

\* raise HTTPException(status_code=500, detail=...).
HTTPException500(route, detail) ==
    [NoResp EXCEPT !.route = route, !.code = 500, !.detail = detail]

\* An exception no handler catches: the framework's plain 500.
Unhandled500(route) == HTTPException500(route, <<"Internal Server Error">>)

Idle(p) == pc[p] = "idle"

\* The handler returns or raises: the response is ready.
Finish(p, r) ==
    /\ pc' = [pc EXCEPT ![p] = "done"]
    /\ resp' = [resp EXCEPT ![p] = r]

\* A handler that runs in one step: request in, response out.
OneStep(p, body, r) ==
    /\ Idle(p)
    /\ req' = [req EXCEPT ![p] = body]
    /\ Finish(p, r)
    /\ UNCHANGED <<db, environ, up, coll, idx, seeded, manual, failed>>

----------------------------------------------------------------------------
(* POST /seed *)

\* Position in SeedCollections of collection c.
SeedPos(c) == CHOOSE i \in 1..Len(SeedCollections) : SeedCollections[i] = c

\* What follows the block of collection c: the next count, or `return`.
SeedAdvance(p, c) ==
    IF SeedPos(c) < Len(SeedCollections)
    THEN /\ pc' = [pc EXCEPT ![p] = "seed_count"]
         /\ coll' = [coll EXCEPT ![p] = SeedCollections[SeedPos(c) + 1]]
         /\ idx' = [idx EXCEPT ![p] = 0]
         /\ UNCHANGED <<resp, seeded>>
    ELSE /\ Finish(p, Ok("seed", "ok"))
         /\ seeded' = TRUE
         /\ UNCHANGED <<coll, idx>>

\* An exception inside the try: `except Exception as e` turns it into a 500.
SeedRaise(p, detail) ==
    /\ Finish(p, HTTPException500("seed", detail))
    /\ UNCHANGED <<coll, idx, seeded>>

\* The request arrives; `if db is None` raises inside the try.
seed_content_begin(p) ==
    /\ Idle(p)
    /\ req' = [req EXCEPT ![p] = NoBody]
    /\ IF db = "none"
       THEN SeedRaise(p, StrHTTPException("500", "Database not configured"))
       ELSE /\ pc' = [pc EXCEPT ![p] = "seed_count"]
            /\ coll' = [coll EXCEPT ![p] = SeedCollections[1]]
            /\ idx' = [idx EXCEPT ![p] = 0]
            /\ UNCHANGED <<resp, seeded>>
    /\ UNCHANGED <<db, environ, up, store, manual, failed>>

\* Mutant: the emptiness check is dropped, every request inserts.
SeedNeededAlways(c) == TRUE

\* Mutant: a collection is topped up whenever it holds fewer than its defaults.
SeedNeededBelowDefaults(c) == count_documents(c) < Len(defaults(c))

\* `if db[c].count_documents({}) == 0`: the collection is to be seeded.
SeedNeeded(c) == count_documents(c) = 0

\* The emptiness check of the current collection.
seed_content_count(p) ==
    /\ pc[p] = "seed_count"
    /\ IF ~StorageWorks
       THEN SeedRaise(p, StrException(StorageErrorMsg))
       ELSE IF SeedNeeded(coll[p])
            THEN /\ pc' = [pc EXCEPT ![p] = "seed_insert"]
                 /\ idx' = [idx EXCEPT ![p] = 1]
                 /\ UNCHANGED <<coll, resp, seeded>>
            ELSE SeedAdvance(p, coll[p])
    /\ UNCHANGED <<db, environ, up, store, req, manual, failed>>

\* Mutant: the default replaces the collection's content instead of joining it.
InsertDefaultReplace(c, i) ==
    [store EXCEPT ![c] = <<stored_document(c, defaults(c)[i])>>]

\* `create_document(c, item)` for the i-th default of collection c.
InsertDefault(c, i) == create_document(c, defaults(c)[i])

\* One turn of the loop over the defaults.
seed_content_insert(p) ==
    /\ pc[p] = "seed_insert"
    /\ IF ~StorageWorks
       THEN /\ SeedRaise(p, StrException(StorageErrorMsg))
            /\ UNCHANGED store
       ELSE /\ store' = InsertDefault(coll[p], idx[p])
            /\ IF idx[p] < Len(defaults(coll[p]))
               THEN /\ idx' = [idx EXCEPT ![p] = idx[p] + 1]
                    /\ UNCHANGED <<pc, coll, resp, seeded>>
               ELSE SeedAdvance(p, coll[p])
    /\ UNCHANGED <<db, environ, up, req, manual, failed>>

----------------------------------------------------------------------------
(* GET /, GET /schema *)

read_root(p) ==
    /\ OneStep(p, NoBody, Ok("root", "Luxury Catering API running"))
    /\ UNCHANGED store

get_schema(p) ==
    /\ OneStep(p, NoBody,
               [Ok("schema", "") EXCEPT !.diag = [c \in Collections |-> model_fields(c)]])
    /\ UNCHANGED store

----------------------------------------------------------------------------
(* GET /menu, GET /testimonials, GET /gallery *)

\* Schema(**kwargs) succeeds: every required field is given.
Validates(d, c) == required_fields(c) \subseteq DOMAIN d

\* Mutant: the document is passed on as stored, nothing filtered out.
ShapeKeepAll(d, c) == d

\* {k: v for k, v in d.items() if k in Schema.model_fields}
Shape(d, c) == [k \in DOMAIN d \cap model_fields(c) |-> d[k]]

\* [Schema(**{...}) for d in docs]
ShapeAll(docs, c) == [i \in 1..Len(docs) |-> Shape(docs[i], c)]

\* A read handler: no try/except around get_documents or the constructor.
ReadResponse(route, c) ==
    IF ~StorageWorks
    THEN Unhandled500(route)
    ELSE IF \A i \in 1..Len(get_documents(c)) : Validates(get_documents(c)[i], c)
         THEN [Ok(route, "") EXCEPT !.body = ShapeAll(get_documents(c), c)]
         ELSE Unhandled500(route)

\* Mutant: the menu is read from the testimonial collection.
get_menu_from_testimonial(p) ==
    /\ OneStep(p, NoBody, ReadResponse("menu", "testimonial"))
    /\ UNCHANGED store

get_menu(p) ==
    /\ OneStep(p, NoBody, ReadResponse("menu", "menuitem"))
    /\ UNCHANGED store

get_testimonials(p) ==
    /\ OneStep(p, NoBody, ReadResponse("testimonials", "testimonial"))
    /\ UNCHANGED store

get_gallery(p) ==
    /\ OneStep(p, NoBody, ReadResponse("gallery", "galleryimage"))
    /\ UNCHANGED store

----------------------------------------------------------------------------
(* POST /contact *)

\* Request bodies a client may send: complete, one required field short,
\* and complete with a field the schema does not know.
Payloads ==
    { [name |-> "Ada", email |-> "ada@example.com", message |-> "Dinner for twelve"],
      [name |-> "Ada", email |-> "ada@example.com"],
      [name |-> "Ada", email |-> "ada@example.com", message |-> "Dinner for twelve",
       company |-> "Analytical Ltd"] }

\* Mutant: the body is taken as an untyped dictionary, nothing is rejected.
PayloadAcceptedAny(payload) == TRUE

\* `payload: ContactInquiry`: the body is validated before the handler runs.
PayloadAccepted(payload) == Validates(payload, "contactinquiry")

\* The framework's answer to a body that fails validation.
ValidationError422 == [NoResp EXCEPT !.route = "contact", !.code = 422]

\* Mutant: the inquiry is written to another collection.
ContactCollectionWrong == "testimonial"

\* The collection post_contact writes to.
ContactCollection == "contactinquiry"

post_contact(p, payload) ==
    IF ~PayloadAccepted(payload)
    THEN /\ OneStep(p, payload, ValidationError422)
         /\ UNCHANGED store
    ELSE /\ Len(store[ContactCollection]) < MaxContacts
         /\ IF ~StorageWorks
            THEN /\ OneStep(p, payload,
                            HTTPException500("contact", StrException(StorageErrorMsg)))
                 /\ UNCHANGED store
            ELSE /\ OneStep(p, payload, Ok("contact", "received"))
                 /\ store' = create_document(ContactCollection,
                                             Shape(payload, "contactinquiry"))

----------------------------------------------------------------------------
(* GET /test *)

Take(s, n) == SubSeq(s, 1, IF Len(s) < n THEN Len(s) ELSE n)

\* db.list_collection_names(): the collections that exist in the database.
list_collection_names ==
    SelectSeq(<<"menuitem", "testimonial", "galleryimage", "contactinquiry">>,
              LAMBDA c : Len(store[c]) > 0)
    \o [i \in 1..OtherCollections |-> ToString(i)]

\* Mutant: the list is returned without the slice.
CollectionsShownAll(names) == names

\* collections[:10]
CollectionsShown(names) == Take(names, 10)

\* The dictionary test_database returns.
test_response ==
    [backend |-> "Running",
     database |->
        IF db = "none" THEN "Available but not initialized"
        ELSE IF up THEN "Connected & Working"
        ELSE "Connected but Error: connection failure",
     database_url |-> IF environ["DATABASE_URL"] THEN "Set" ELSE "Not Set",
     database_name |-> IF environ["DATABASE_NAME"] THEN "Set" ELSE "Not Set",
     connection_status |-> IF db = "none" THEN "Not Connected" ELSE "Connected",
     collections |-> IF StorageWorks THEN CollectionsShown(list_collection_names)
                     ELSE <<>>]

test_database(p) ==
    /\ OneStep(p, NoBody, [Ok("test", "") EXCEPT !.diag = test_response])
    /\ UNCHANGED store

----------------------------------------------------------------------------
(* The response is sent and the worker is free again. *)

Respond(p) ==
    /\ pc[p] = "done"
    /\ pc' = [pc EXCEPT ![p] = "idle"]
    /\ req' = [req EXCEPT ![p] = NoBody]
    /\ coll' = [coll EXCEPT ![p] = "-"]
    /\ idx' = [idx EXCEPT ![p] = 0]
    /\ resp' = [resp EXCEPT ![p] = NoResp]
    /\ UNCHANGED <<db, environ, up, store, seeded, manual, failed>>

----------------------------------------------------------------------------
(* The environment: an operator writing to the store directly between      *)
(* requests, and the store going down and coming back.                     *)

\* Documents written by hand: a complete one with an unrecognized field,
\* and one that lacks required fields.
ManualDocs(c) ==
    { [k \in DOMAIN defaults(c)[1] \cup {"note"} |->
          IF k = "note" THEN "added by hand" ELSE defaults(c)[1][k]],
      [note |-> "draft"] }

ManualInsert(c, d) ==
    /\ \A p \in AllProcs : pc[p] = "idle"
    /\ up
    /\ manual < MaxManual
    /\ manual' = manual + 1
    /\ store' = [store EXCEPT ![c] =
                    Append(@, [k \in DOMAIN d \cup {"_id"} |->
                                  IF k = "_id" THEN Len(store[c]) + 1 ELSE d[k]])]
    /\ UNCHANGED <<db, environ, up, pc, req, coll, idx, resp, seeded, failed>>

StorageDown ==
    /\ up
    /\ up' = FALSE
    /\ failed' = TRUE
    /\ UNCHANGED <<db, environ, store, pc, req, coll, idx, resp, seeded, manual>>

StorageUp ==
    /\ ~up
    /\ up' = TRUE
    /\ UNCHANGED <<db, environ, store, pc, req, coll, idx, resp, seeded, manual, failed>>

----------------------------------------------------------------------------
(* Specifications. *)

Init ==
    /\ environ \in [{"DATABASE_URL", "DATABASE_NAME"} -> BOOLEAN]
    /\ db \in {"none", "handle"}
    /\ db = "handle" => environ["DATABASE_URL"] /\ environ["DATABASE_NAME"]
    /\ up = TRUE
    /\ store = [c \in Collections |-> <<>>]
    /\ pc = [p \in AllProcs |-> "idle"]
    /\ req = [p \in AllProcs |-> NoBody]
    /\ coll = [p \in AllProcs |-> "-"]
    /\ idx = [p \in AllProcs |-> 0]
    /\ resp = [p \in AllProcs |-> NoResp]
    /\ seeded = FALSE
    /\ manual = 0
    /\ failed = (db = "none")

\* POST /seed, the one handler that takes more than one step.
SeedRoute(p) ==
    \/ seed_content_begin(p)
    \/ seed_content_count(p)
    \/ seed_content_insert(p)

\* The handlers that take one step.
OneStepRoutes(p) ==
    \/ read_root(p)
    \/ get_schema(p)
    \/ get_menu(p)
    \/ get_testimonials(p)
    \/ get_gallery(p)
    \/ \E payload \in Payloads : post_contact(p, payload)
    \/ test_database(p)

Handler(p) == SeedRoute(p) \/ OneStepRoutes(p) \/ Respond(p)

Environment ==
    \/ \E c \in {"menuitem", "testimonial", "galleryimage"} :
          \E d \in ManualDocs(c) : ManualInsert(c, d)
    \/ StorageDown
    \/ StorageUp

\* Requests one after another, on a store that may fail and that an
\* operator may write to between requests.
SeqNext == Handler(1) \/ Environment

SeqSpec == Init /\ [][SeqNext]_vars

\* Requests overlap a seed request: worker 1 serves the one-step routes
\* while worker 2 serves POST /seed, on a store that may fail.
Next ==
    \/ OneStepRoutes(1) \/ Respond(1)
    \/ SeedRoute(2) \/ Respond(2)
    \/ StorageDown
    \/ StorageUp

Spec == Init /\ [][Next]_vars

\* Two POST /seed requests overlap on a working store.
RaceNext == \E p \in AllProcs : SeedRoute(p) \/ Respond(p)

RaceSpec == Init /\ [][RaceNext]_vars

----------------------------------------------------------------------------
(* Vocabulary of the properties. *)

ReadRoutes == {"menu", "testimonials", "gallery"}

\* The collection a read route serves.
RouteCollection(route) ==
    CASE route = "menu" -> "menuitem"
      [] route = "testimonials" -> "testimonial"
      [] route = "gallery" -> "galleryimage"

\* Messages of the failures a storage call or the handle check can raise.
FailureMessages ==
    {"Database not configured", "Database not available", "connection failure"}

Counts(m, t, g) ==
    /\ Len(store["menuitem"]) = m
    /\ Len(store["testimonial"]) = t
    /\ Len(store["galleryimage"]) = g

InSeed(p) == pc[p] \in {"seed_count", "seed_insert"}

\* Worker p has a response of the route ready.
Returned(p, route) == pc[p] = "done" /\ resp[p].route = route

\* This step is worker p serving a one-step request of the route.
Serves(p, route) == pc[p] = "idle" /\ pc'[p] = "done" /\ resp'[p].route = route

\* This step ends a request of worker p on the route.
Ends(p, route) == pc[p] # "done" /\ pc'[p] = "done" /\ resp'[p].route = route

\* This step belongs to a POST /seed request of worker p.
SeedStep(p) ==
    \/ InSeed(p) /\ <<pc[p], coll[p], idx[p], store>> # <<pc'[p], coll'[p], idx'[p], store'>>
    \/ pc[p] = "idle" /\ (InSeed(p)' \/ Ends(p, "seed"))

IsPrefix(s, t) == Len(s) <= Len(t) /\ SubSeq(t, 1, Len(s)) = s

----------------------------------------------------------------------------
(* C1: seeding an empty, working store any number of times in sequence     *)
(* leaves exactly 3 menu items, 3 testimonials and 6 gallery images: no    *)
(* collection ever holds more than its defaults, and whenever a seed       *)
(* request returns ok the counts are 3/3/6.                                *)
C1_SequentialSeedIdempotent ==
    (manual = 0 /\ ~failed) =>
        /\ \A c \in {"menuitem", "testimonial", "galleryimage"} :
              Len(store[c]) <= Len(defaults(c))
        /\ (Returned(1, "seed") /\ resp[1].code = 200) => Counts(3, 3, 6)
        /\ seeded /\ ~InSeed(1) => Counts(3, 3, 6)

\* A seed request that found all three collections populated returned ok.
C1_Witness ==
    /\ manual = 0 /\ ~failed
    /\ Returned(1, "seed") /\ resp[1].code = 200
    /\ coll[1] = "galleryimage" /\ idx[1] = 0
    /\ Counts(3, 3, 6)

(* C2: a seed request starts inserting into a collection only when its     *)
(* check found the collection empty, and from then on changes it only by   *)
(* appending the next default behind the defaults it has put there itself, *)
(* so a collection that held a document when the request checked it is     *)
(* left as it was; contactinquiry is never touched.                        *)
C2_SeedOnlyIntoEmpty ==
    [][/\ (pc[1] # "seed_insert" /\ pc'[1] = "seed_insert") =>
             /\ pc[1] = "seed_count" /\ coll'[1] = coll[1]
             /\ store[coll[1]] = <<>> /\ idx'[1] = 1
       /\ (pc[1] = "seed_insert" /\ pc'[1] = "seed_insert") =>
             /\ coll'[1] = coll[1]
             /\ idx'[1] = idx[1] + (IF store' = store THEN 0 ELSE 1)
       /\ \A c \in Collections :
             (SeedStep(1) /\ store'[c] # store[c]) =>
                 /\ c # "contactinquiry"
                 /\ pc[1] = "seed_insert" /\ coll[1] = c
                 /\ Len(store[c]) = idx[1] - 1
                 /\ \A i \in 1..Len(store[c]) : Shape(store[c][i], c) = defaults(c)[i]
                 /\ Len(store'[c]) = idx[1]
                 /\ IsPrefix(store[c], store'[c])
                 /\ Shape(store'[c][idx[1]], c) = defaults(c)[idx[1]]]_vars

\* A later seed request returned ok and seeded the gallery, with the menu
\* still holding the single default an earlier, failed request left there.
C2_Witness ==
    /\ Returned(1, "seed") /\ resp[1].code = 200
    /\ manual = 0
    /\ Counts(1, 3, 6)
    /\ coll[1] = "galleryimage" /\ idx[1] = 6

(* C3: on a store that started empty and always worked, once a seed        *)
(* request has returned ok, GET /menu answers with exactly the three       *)
(* default items (titles, categories, tags), GET /testimonials with 3      *)
(* entries and GET /gallery with 6.                                        *)
C3_SeedThenRead ==
    (manual = 0 /\ ~failed /\ seeded /\ pc[1] = "done") =>
        /\ resp[1].route = "menu" =>
              /\ resp[1].code = 200
              /\ Len(resp[1].body) = 3
              /\ [i \in 1..3 |-> resp[1].body[i].title] =
                    <<"Black Truffle Arancini", "Butter-Poached Lobster",
                      "Valrhona Chocolate Tart">>
              /\ [i \in 1..3 |-> resp[1].body[i].category] =
                    <<"Canapes", "Mains", "Desserts">>
              /\ [i \in 1..3 |-> resp[1].body[i].tags] =
                    << <<"vegetarian", "signature">>, <<"seafood">>, <<"dessert">> >>
        /\ resp[1].route = "testimonials" =>
              resp[1].code = 200 /\ Len(resp[1].body) = 3
        /\ resp[1].route = "gallery" =>
              resp[1].code = 200 /\ Len(resp[1].body) = 6

C3_Witness ==
    /\ manual = 0 /\ ~failed /\ seeded
    /\ Returned(1, "menu") /\ resp[1].code = 200
    /\ Len(resp[1].body) = 3
    /\ resp[1].body[3].title = "Valrhona Chocolate Tart"

(* C4: a POST /contact whose body lacks a required field is answered 422,  *)
(* never 500, whatever the state of the storage, and changes no            *)
(* collection.                                                             *)
C4_ValidationRejection ==
    [][(Serves(1, "contact") /\ ~(ContactInquiry_fields \subseteq DOMAIN req'[1])) =>
          /\ resp'[1].code = 422
          /\ resp'[1].code # 500
          /\ store' = store]_vars

\* The body was rejected while the storage was unusable.
C4_Witness ==
    /\ Returned(1, "contact")
    /\ ~(ContactInquiry_fields \subseteq DOMAIN req[1])
    /\ resp[1].code = 422
    /\ failed

(* C5: a well-formed POST /contact on working storage returns              *)
(* {"status": "received"}, appends exactly one document with the submitted *)
(* fields to contactinquiry, leaves the other collections as they were,    *)
(* and leaves the answers of the three read routes as they were.           *)
C5_ContactWrite ==
    [][(/\ Serves(1, "contact")
        /\ ContactInquiry_fields \subseteq DOMAIN req'[1]
        /\ StorageWorks) =>
          /\ resp'[1].code = 200 /\ resp'[1].status = "received"
          /\ Len(store'["contactinquiry"]) = Len(store["contactinquiry"]) + 1
          /\ IsPrefix(store["contactinquiry"], store'["contactinquiry"])
          /\ \A k \in ContactInquiry_fields :
                store'["contactinquiry"][Len(store'["contactinquiry"])][k] = req'[1][k]
          /\ \A c \in Collections \ {"contactinquiry"} : store'[c] = store[c]
          /\ \A r \in ReadRoutes :
                ReadResponse(r, RouteCollection(r))' = ReadResponse(r, RouteCollection(r))]_vars

\* The inquiry is stored beside seeded content.
C5_Witness ==
    /\ Returned(1, "contact") /\ resp[1].status = "received"
    /\ Len(store["contactinquiry"]) = 1
    /\ store["contactinquiry"][1].message = "Dinner for twelve"
    /\ Counts(3, 3, 6)

(* C6: when every stored document of the collection has the required       *)
(* fields and the storage works, a read route returns one object per       *)
(* document, in the store's order, holding exactly the schema's fields     *)
(* with the stored values and nothing else.                                *)
C6_SchemaFiltering ==
    [][\A r \in ReadRoutes :
          (/\ Serves(1, r)
           /\ StorageWorks
           /\ \A i \in 1..Len(store[RouteCollection(r)]) :
                 model_fields(RouteCollection(r)) \subseteq DOMAIN store[RouteCollection(r)][i]) =>
              /\ resp'[1].code = 200
              /\ Len(resp'[1].body) = Len(store[RouteCollection(r)])
              /\ \A i \in 1..Len(resp'[1].body) :
                    /\ DOMAIN resp'[1].body[i] = model_fields(RouteCollection(r))
                    /\ \A k \in model_fields(RouteCollection(r)) :
                          resp'[1].body[i][k] = store[RouteCollection(r)][i][k]]_vars

\* The menu of three seeded items and one written by hand with a field the
\* schema does not know.
C6_Witness ==
    /\ Returned(1, "menu") /\ resp[1].code = 200
    /\ Len(resp[1].body) = 4
    /\ \E i \in 1..4 : "note" \in DOMAIN store["menuitem"][i]
    /\ \A i \in 1..4 : "_id" \in DOMAIN store["menuitem"][i]

(* C7: every request on a storage route that meets a storage failure is    *)
(* answered 500 with a detail that carries the failure's message.          *)
C7_UniformFailureMapping ==
    [][\A r \in {"seed", "contact"} \cup ReadRoutes :
          (/\ Ends(1, r)
           /\ ~StorageWorks
           /\ r = "contact" => ContactInquiry_fields \subseteq DOMAIN req'[1]) =>
              /\ resp'[1].code = 500
              /\ \E i \in 1..Len(resp'[1].detail) :
                    resp'[1].detail[i] \in FailureMessages]_vars

\* What the code does: POST /seed and POST /contact map the failure to a
\* 500 that carries its message.
SeedContactFailureMapping ==
    [][\A r \in {"seed", "contact"} :
          (/\ Ends(1, r)
           /\ ~StorageWorks
           /\ r = "contact" => ContactInquiry_fields \subseteq DOMAIN req'[1]) =>
              /\ resp'[1].code = 500
              /\ \E i \in 1..Len(resp'[1].detail) :
                    resp'[1].detail[i] \in FailureMessages]_vars

(* C8: GET /test always answers 200 with exactly the six keys and at most  *)
(* 10 collection names, changes no collection, and without a handle        *)
(* reports the database as not initialized and "Not Connected".            *)
C8_DiagnosticResilience ==
    [][Serves(1, "test") =>
          /\ resp'[1].code = 200
          /\ DOMAIN resp'[1].diag =
                {"backend", "database", "database_url", "database_name",
                 "connection_status", "collections"}
          /\ Len(resp'[1].diag.collections) <= 10
          /\ db = "none" =>
                /\ resp'[1].diag.database = "Available but not initialized"
                /\ resp'[1].diag.connection_status = "Not Connected"
                /\ resp'[1].diag.collections = <<>>
          /\ (db = "handle" /\ ~up) =>
                /\ resp'[1].diag.database = "Connected but Error: connection failure"
                /\ resp'[1].diag.collections = <<>>
          /\ store' = store]_vars

\* The diagnostic answered without a handle.
C8_Witness ==
    /\ Returned(1, "test") /\ resp[1].code = 200
    /\ db = "none"
    /\ resp[1].diag.connection_status = "Not Connected"

(* C9: every step leaves each collection's earlier content in place as a   *)
(* prefix of its later content, and the steps of GET /, /schema, /menu,    *)
(* /testimonials, /gallery and /test change no collection.                 *)
C9_StorageOnlyGrows ==
    [][/\ \A c \in Collections :
             store'[c] = store[c] \/ IsPrefix(store[c], store'[c])
       /\ \A p \in AllProcs :
             (/\ pc[p] = "idle" /\ pc'[p] = "done"
              /\ resp'[p].route \in {"root", "schema", "test"} \cup ReadRoutes) =>
                store' = store]_vars

\* A read was served while a seed request was filling the gallery, which
\* has grown since, on a store that has been down in between.
C9_Witness ==
    /\ Returned(1, "gallery") /\ resp[1].code = 200
    /\ pc[2] = "seed_insert" /\ coll[2] = "galleryimage"
    /\ 0 < Len(resp[1].body)
    /\ Len(resp[1].body) < Len(store["galleryimage"])
    /\ failed

(* C10: two overlapping seed requests can both find a collection empty and *)
(* both insert its defaults; the collections then hold each default at     *)
(* most once per overlapping request, up to 6/6/12 documents.              *)
C10_DoubleSeedRace ==
    \A c \in {"menuitem", "testimonial", "galleryimage"} :
        LET shaped == ShapeAll(store[c], c)
            dflt == defaults(c)
        IN  /\ Len(shaped) <= Cardinality(AllProcs) * Len(dflt)
            /\ \A j \in 1..Len(dflt) :
                  Cardinality({i \in 1..Len(shaped) : shaped[i] = dflt[j]})
                     <= Cardinality(AllProcs)
            /\ \A i \in 1..Len(shaped) : \E j \in 1..Len(dflt) : shaped[i] = dflt[j]

\* Both requests seeded every collection.
C10_Witness == Counts(6, 6, 12)

============================================================================
